---- MODULE Spec2Model ----
(***************************************************************************)
(* Model of the transaction validation-and-load pipeline of               *)
(* hasan_snoop/snoop_assignment/main.py: data_quality_checks, the three   *)
(* insert_into_* sinks, create_tables and the sequencing done by main().  *)
(*                                                                         *)
(* A DataFrame is a sequence of rows; every row carries its index label   *)
(* in the field idx (pandas keeps the labels when a frame is filtered).   *)
(* A text date is a sequence of one-character strings, so that parsing it *)
(* is computed; a parsed date is <<year, month, day>> and NaT is <<>>.    *)
(* A database table is a set of rows, error_log_table (no key) a bag.     *)
(***************************************************************************)
EXTENDS Integers, Sequences, FiniteSets, Bags, TLC

(* ----------------------------- bounds --------------------------------- *)

\* longest batch handed to data_quality_checks in ValidatorSpec
MaxBatch == 3

\* longest batch loaded by one run of main() in Spec
MaxLoad == 2

\* number of runs of main() in one behaviour of Spec
MaxRuns == 2

(* ------------------------- input literals ----------------------------- *)

d20231121 == <<"2", "0", "2", "3", "-", "1", "1", "-", "2", "1">>

d20231205 == <<"2", "0", "2", "3", "-", "1", "2", "-", "0", "5">>

d20240112 == <<"2", "0", "2", "4", "-", "0", "1", "-", "1", "2">>

\* day/month/year: the wrong shape for %Y-%m-%d
dSlashed == <<"2", "1", "/", "1", "1", "/", "2", "0", "2", "3">>

\* the right shape, but no such calendar day
dFeb30 == <<"2", "0", "2", "3", "-", "0", "2", "-", "3", "0">>

\* the right shape, but no such month
dMonth13 == <<"2", "0", "2", "3", "-", "1", "3", "-", "0", "1">>

WellFormedDates == {d20231121, d20231205, d20240112}

MalformedDates == {dSlashed, dFeb30, dMonth13}

Raw(cid, name, tid, date, src, merchant, category, cur, amt, desc) ==
    [customerId |-> cid, customerName |-> name, transactionId |-> tid,
     transactionDate |-> date, sourceDate |-> src, merchantId |-> merchant,
     categoryId |-> category, currency |-> cur, amount |-> amt,
     description |-> desc]

\* two submissions of the key (c1, t1) that differ in every non-key column
A1 == Raw("c1", "Ann", "t1", d20231121, "s1", 1, 1, "EUR", 1000, "coffee")

A2 == Raw("c1", "Ann B", "t1", d20240112, "s2", 2, 2, "GBP", 2550, "books")

A3 == Raw("c2", "Bob", "t1", d20231205, "s1", 1, 2, "USD", 300, "taxi")

\* currency outside the list, date fine
B1 == Raw("c2", "Bob", "t2", d20231121, "s2", 2, 1, "CAD", 700, "skis")

\* the right letters in the wrong case
B2 == Raw("c1", "Ann", "t2", d20231205, "s1", 1, 1, "eur", 450, "tea")

\* date of the wrong shape, currency fine; the key of A3
B3 == Raw("c2", "Bob", "t1", dSlashed, "s2", 1, 1, "EUR", 120, "lunch")

B4 == Raw("c1", "Ann", "t2", dFeb30, "s1", 2, 2, "GBP", 990, "hotel")

\* currency and date both bad
B5 == Raw("c2", "Bob", "t2", dMonth13, "s1", 1, 1, "JPY", 80, "sushi")

\* the customer id of A1 written in upper case: another text, the same UUID
B6 == Raw("C1", "Ann", "t1", d20231205, "s2", 1, 2, "USD", 640, "shoes")

\* a second transaction of customer c1, under another spelling of the name
A4 == Raw("c1", "Ann B", "t2", d20231205, "s2", 2, 1, "GBP", 1500, "train")

\* the records data_quality_checks is tried on
Transactions == {A1, A2, A3, A4, B1, B2, B3, B4, B5, B6}

\* the records the runs of main() load
LoadPool == {A1, A2, A3, B3}

\* the records of the file that the runs of CleanSpec load
CleanPool == {A1, A2, A3, A4, B3}

\* all sequences over S of length at most n
SeqsUpTo(S, n) == UNION {[1..k -> S] : k \in 0..n}

(* ---------------------- load_data_from_json --------------------------- *)

\* pd.DataFrame(data['transactions']): the rows in file order under a
\* RangeIndex 0, 1, 2, ...
DataFrame(records) ==
    [i \in 1..Len(records) |->
        [idx |-> i - 1,
         customerId |-> records[i].customerId,
         customerName |-> records[i].customerName,
         transactionId |-> records[i].transactionId,
         transactionDate |-> records[i].transactionDate,
         sourceDate |-> records[i].sourceDate,
         merchantId |-> records[i].merchantId,
         categoryId |-> records[i].categoryId,
         currency |-> records[i].currency,
         amount |-> records[i].amount,
         description |-> records[i].description]]

(* ------------------------- date parsing ------------------------------- *)

NaT == <<>>

DigitChars == {"0", "1", "2", "3", "4", "5", "6", "7", "8", "9"}

DigitVal(c) ==
    CASE c = "0" -> 0 [] c = "1" -> 1 [] c = "2" -> 2 [] c = "3" -> 3
      [] c = "4" -> 4 [] c = "5" -> 5 [] c = "6" -> 6 [] c = "7" -> 7
      [] c = "8" -> 8 [] c = "9" -> 9

IsLeap(y) == (y % 4 = 0 /\ y % 100 # 0) \/ y % 400 = 0

DaysInMonth(y, m) ==
    IF m = 2 THEN (IF IsLeap(y) THEN 29 ELSE 28)
    ELSE IF m \in {4, 6, 9, 11} THEN 30 ELSE 31

\* variant: the shape of the text checked, the calendar not
to_datetime_shape_only(s) ==
    IF /\ Len(s) = 10
       /\ s[5] = "-" /\ s[8] = "-"
       /\ \A i \in {1, 2, 3, 4, 6, 7, 9, 10} : s[i] \in DigitChars
    THEN <<1000 * DigitVal(s[1]) + 100 * DigitVal(s[2])
             + 10 * DigitVal(s[3]) + DigitVal(s[4]),
           10 * DigitVal(s[6]) + DigitVal(s[7]),
           10 * DigitVal(s[9]) + DigitVal(s[10])>>
    ELSE NaT

\* pd.to_datetime(text, format='%Y-%m-%d', errors='coerce') on one value:
\* the date, or NaT when the text does not match the format or names no day
to_datetime(s) ==
    IF /\ Len(s) = 10
       /\ s[5] = "-" /\ s[8] = "-"
       /\ \A i \in {1, 2, 3, 4, 6, 7, 9, 10} : s[i] \in DigitChars
    THEN LET y == 1000 * DigitVal(s[1]) + 100 * DigitVal(s[2])
                    + 10 * DigitVal(s[3]) + DigitVal(s[4])
             m == 10 * DigitVal(s[6]) + DigitVal(s[7])
             d == 10 * DigitVal(s[9]) + DigitVal(s[10])
         IN  IF m \in 1..12 /\ d >= 1 /\ d <= DaysInMonth(y, m)
             THEN <<y, m, d>>
             ELSE NaT
    ELSE NaT

\* the order of DATE values
DateLE(a, b) ==
    \/ a[1] < b[1]
    \/ a[1] = b[1] /\ a[2] < b[2]
    \/ a[1] = b[1] /\ a[2] = b[2] /\ a[3] <= b[3]

(* ---------------------- data_quality_checks --------------------------- *)

\* variant: one currency of the list left out
allowable_currencies_without_usd == {"EUR", "GBP"}

allowable_currencies == {"EUR", "GBP", "USD"}

\* variant: the currency compared without regard to case
condition1_any_case(df) ==
    [i \in 1..Len(df) |->
        df[i].currency \in {"EUR", "GBP", "USD", "eur", "gbp", "usd"}]

\* df['currency'].isin(allowable_currencies)
condition1(df) == [i \in 1..Len(df) |-> df[i].currency \in allowable_currencies]

\* pd.to_datetime(df['transactionDate'], ..., errors='coerce').notna()
condition2(df) == [i \in 1..Len(df) |-> to_datetime(df[i].transactionDate) # NaT]

\* the rows in the group of row i under groupby(['transactionId', 'customerId'])
GroupOf(df, i) ==
    {j \in 1..Len(df) : /\ df[j].transactionId = df[i].transactionId
                        /\ df[j].customerId = df[i].customerId}

\* df.groupby(['transactionId', 'customerId'])['transactionId']
\*   .transform('nunique') == 1
\* per row, the number of distinct transactionId values in the row's group
condition3(df) ==
    [i \in 1..Len(df) |->
        Cardinality({df[j].transactionId : j \in GroupOf(df, i)}) = 1]

\* variant: the kept rows collected newest first
BoolIndex_newest_first(df, mask) ==
    LET F[i \in 0..Len(df)] ==
            IF i = 0 THEN <<>>
            ELSE IF mask[i] THEN <<df[i]>> \o F[i - 1] ELSE F[i - 1]
    IN  F[Len(df)]

\* df[mask]: the rows whose mask entry is true, in order, labels kept
BoolIndex(df, mask) ==
    LET F[i \in 0..Len(df)] ==
            IF i = 0 THEN <<>>
            ELSE IF mask[i] THEN Append(F[i - 1], df[i]) ELSE F[i - 1]
    IN  F[Len(df)]

final_condition(df) ==
    [i \in 1..Len(df) |-> condition1(df)[i] /\ condition2(df)[i] /\ condition3(df)[i]]

\* variant: the negations joined by "and" instead of "or"
failed_condition_all(df) ==
    [i \in 1..Len(df) |->
        (~condition1(df)[i]) /\ (~condition2(df)[i]) /\ (~condition3(df)[i])]

failed_condition(df) ==
    [i \in 1..Len(df) |->
        (~condition1(df)[i]) \/ (~condition2(df)[i]) \/ (~condition3(df)[i])]

\* returns <<filtered_df, failed_df>>
data_quality_checks(df) ==
    <<BoolIndex(df, final_condition(df)), BoolIndex(df, failed_condition(df))>>

(* ------------------- type conversions of main() ----------------------- *)

\* uuid.UUID(text) and the server's cast of a text to UUID: hexadecimal
\* digits are read without regard to case, the value is the lower-case form
UUID(s) == CASE s = "C1" -> "c1" [] s = "C2" -> "c2" [] OTHER -> s

\* pd.to_datetime on a sourceDate text: a Timestamp value, no longer a text
Timestamp(s) == [ts |-> s]

\* pd.to_numeric on an amount that the JSON file gives as a number
to_numeric(a) == a

\* lines 194-198 on one row of filtered_df
ConvertRow(r) ==
    [r EXCEPT !.sourceDate = Timestamp(r.sourceDate),
              !.amount = to_numeric(r.amount),
              !.customerId = UUID(r.customerId),
              !.transactionId = UUID(r.transactionId),
              !.transactionDate = to_datetime(r.transactionDate)]

ConvertTypes(fdf) == [i \in 1..Len(fdf) |-> ConvertRow(fdf[i])]

(* --------------------------- the store -------------------------------- *)

EmptyStore ==
    [tables |-> FALSE,
     transactions_table |-> {},
     customer_table |-> {},
     error_log_table |-> EmptyBag]

\* tuple(row) of filtered_df: the ten columns, the index label dropped
TransactionParams(fdf) ==
    [i \in 1..Len(fdf) |->
        [customerId |-> fdf[i].customerId,
         customerName |-> fdf[i].customerName,
         transactionId |-> fdf[i].transactionId,
         transactionDate |-> fdf[i].transactionDate,
         sourceDate |-> fdf[i].sourceDate,
         merchantId |-> fdf[i].merchantId,
         categoryId |-> fdf[i].categoryId,
         currency |-> fdf[i].currency,
         amount |-> fdf[i].amount,
         description |-> fdf[i].description]]

\* variant: delete-then-insert with transactionId alone taken for the key
UpsertTransaction_by_transaction_id(table, v) ==
    {r \in table : r.transactionId # v.transactionId} \cup {v}

\* variant: ON CONFLICT DO NOTHING, the stored row kept
UpsertTransaction_keep_stored(table, v) ==
    IF \E r \in table : r.customerId = v.customerId /\ r.transactionId = v.transactionId
    THEN table
    ELSE table \cup {v}

\* INSERT INTO transactions_table ... ON CONFLICT (customerId, transactionId)
\* DO UPDATE SET <every other column> = EXCLUDED.<column>
UpsertTransaction(table, v) ==
    IF \E r \in table : r.customerId = v.customerId /\ r.transactionId = v.transactionId
    THEN {IF r.customerId = v.customerId /\ r.transactionId = v.transactionId
          THEN [r EXCEPT !.customerName = v.customerName,
                         !.transactionDate = v.transactionDate,
                         !.sourceDate = v.sourceDate,
                         !.merchantId = v.merchantId,
                         !.categoryId = v.categoryId,
                         !.currency = v.currency,
                         !.amount = v.amount,
                         !.description = v.description]
          ELSE r : r \in table}
    ELSE table \cup {v}

\* filtered_df[['customerId', 'customerName', 'transactionDate']]
CustomerParams(fdf) ==
    [i \in 1..Len(fdf) |->
        [customerId |-> fdf[i].customerId,
         customerName |-> fdf[i].customerName,
         transactionDate |-> fdf[i].transactionDate]]

\* variant: the incoming date written over the stored one
GREATEST_incoming(a, b) == a

GREATEST(a, b) == IF DateLE(a, b) THEN b ELSE a

\* INSERT INTO customer_table ... ON CONFLICT (customerId) DO UPDATE
\* SET customerName = EXCLUDED.customerName,
\*     transactionDate = GREATEST(EXCLUDED.transactionDate, customer_table.transactionDate)
UpsertCustomer(table, v) ==
    IF \E r \in table : r.customerId = v.customerId
    THEN {IF r.customerId = v.customerId
          THEN [r EXCEPT !.customerName = v.customerName,
                         !.transactionDate = GREATEST(v.transactionDate, r.transactionDate)]
          ELSE r : r \in table}
    ELSE table \cup {v}

\* failed_df[['customerId', 'transactionId', 'description']]; the texts are
\* cast to UUID by the columns of error_log_table
ErrorLogParams(fdf) ==
    [i \in 1..Len(fdf) |->
        [customerId |-> UUID(fdf[i].customerId),
         transactionId |-> UUID(fdf[i].transactionId),
         description |-> fdf[i].description]]

\* variant: an entry already in the log is not inserted again
InsertErrorLog_once(table, v) ==
    IF BagIn(v, table) THEN table ELSE table (+) SetToBag({v})

\* INSERT INTO error_log_table ... VALUES (...): one more row, no key
InsertErrorLog(table, v) == table (+) SetToBag({v})

\* the SQL statement each sink hands to execute_batch, run on one tuple
Statement(sink, table, v) ==
    CASE sink = "insert_into_transactions_table" -> UpsertTransaction(table, v)
      [] sink = "insert_into_customer_table" -> UpsertCustomer(table, v)
      [] sink = "insert_into_error_log_table" -> InsertErrorLog(table, v)

\* psycopg2.extras.execute_batch: the statement once per parameter tuple,
\* in the order of the list
execute_batch(sink, table, params) ==
    LET F[i \in 0..Len(params)] ==
            IF i = 0 THEN table ELSE Statement(sink, F[i - 1], params[i])
    IN  F[Len(params)]

(* ----------------------------- state ---------------------------------- *)

VARIABLES
    pc,           \* the statement of main() that runs next; "closed" between runs
    runs,         \* the runs of main() started so far
    df,           \* the DataFrame read by load_data_from_json
    filtered_df,  \* first result of data_quality_checks, then converted in place
    failed_df,    \* second result of data_quality_checks
    db,           \* the store as committed
    txn,          \* the store as the open transaction of this run sees it
    tx_status,    \* "closed", "open" or "aborted" (a statement has failed)
    errors,       \* the steps of this run whose except branch printed an error
    loaded,       \* <<customerId, transactionDate>> of the rows of filtered_df of
                  \* every run whose commit took effect (history, read by no step)
    file          \* CleanSpec: the records of the JSON file at FILE_PATH, which
                  \* every run reads again; empty in the other specifications,
                  \* whose runs are each handed their records

vars == <<pc, runs, df, filtered_df, failed_df, db, txn, tx_status, errors, loaded, file>>

Sinks == {"insert_into_transactions_table", "insert_into_customer_table",
          "insert_into_error_log_table"}

Init ==
    /\ pc = "closed"
    /\ runs = 0
    /\ df = <<>>
    /\ filtered_df = <<>>
    /\ failed_df = <<>>
    /\ db = EmptyStore
    /\ txn = EmptyStore
    /\ tx_status = "closed"
    /\ errors = {}
    /\ loaded = {}
    /\ file = <<>>

(* ----------------------------- main() --------------------------------- *)

\* lines 179-188: the file is read, the connection opened; the first
\* statement will open a transaction on the committed store
StartRun ==
    /\ pc = "closed"
    /\ runs < MaxRuns
    /\ \E records \in SeqsUpTo(LoadPool, MaxLoad) : df' = DataFrame(records)
    /\ runs' = runs + 1
    /\ txn' = db
    /\ tx_status' = "open"
    /\ errors' = {}
    /\ pc' = "create_tables"
    /\ UNCHANGED <<filtered_df, failed_df, db, loaded, file>>

\* variant: the relations dropped and created anew on every run
create_tables_anew ==
    /\ pc = "create_tables"
    /\ \/ /\ txn' = [EmptyStore EXCEPT !.tables = TRUE]
          /\ UNCHANGED <<tx_status, errors>>
       \/ /\ tx_status' = "aborted"
          /\ txn' = db
          /\ errors' = errors \cup {"create_tables"}
    /\ pc' = "data_quality_checks"
    /\ UNCHANGED <<runs, df, filtered_df, failed_df, db, loaded, file>>

\* create_tables: three CREATE TABLE IF NOT EXISTS; an exception is printed
\* and swallowed, the failed statement leaves the transaction aborted
create_tables ==
    /\ pc = "create_tables"
    /\ \/ /\ txn' = [txn EXCEPT !.tables = TRUE]
          /\ UNCHANGED <<tx_status, errors>>
       \/ /\ tx_status' = "aborted"
          /\ txn' = db
          /\ errors' = errors \cup {"create_tables"}
    /\ pc' = "data_quality_checks"
    /\ UNCHANGED <<runs, df, filtered_df, failed_df, db, loaded, file>>

\* line 191
DataQualityChecks ==
    /\ pc = "data_quality_checks"
    /\ filtered_df' = data_quality_checks(df)[1]
    /\ failed_df' = data_quality_checks(df)[2]
    /\ pc' = "convert"
    /\ UNCHANGED <<runs, df, db, txn, tx_status, errors, loaded, file>>

\* lines 194-198
Convert ==
    /\ pc = "convert"
    /\ filtered_df' = ConvertTypes(filtered_df)
    /\ pc' = "insert_into_transactions_table"
    /\ UNCHANGED <<runs, df, failed_df, db, txn, tx_status, errors, loaded, file>>

\* One insert_into_* function: execute_batch inside try/except, the error
\* printed and swallowed. With no parameter tuple nothing is sent and nothing
\* can fail. Otherwise the batch either takes effect, or fails at the server
\* (the transaction is aborted and its work is lost), or fails before
\* anything is sent (the transaction is as it was); in an aborted
\* transaction the server refuses every statement.
Sink(name, params, effect, next) ==
    /\ pc = name
    /\ \/ /\ params = <<>>
          /\ UNCHANGED <<txn, tx_status, errors>>
       \/ /\ params # <<>> /\ tx_status = "open" /\ txn.tables
          /\ txn' = effect
          /\ UNCHANGED <<tx_status, errors>>
       \/ /\ params # <<>> /\ tx_status = "open"
          /\ tx_status' = "aborted"
          /\ txn' = db
          /\ errors' = errors \cup {name}
       \/ /\ params # <<>> /\ tx_status = "open"
          /\ errors' = errors \cup {name}
          /\ UNCHANGED <<txn, tx_status>>
       \/ /\ params # <<>> /\ tx_status = "aborted"
          /\ errors' = errors \cup {name}
          /\ UNCHANGED <<txn, tx_status>>
    /\ pc' = next
    /\ UNCHANGED <<runs, df, filtered_df, failed_df, db, loaded, file>>

insert_into_transactions_table ==
    Sink("insert_into_transactions_table",
         TransactionParams(filtered_df),
         [txn EXCEPT !.transactions_table =
             execute_batch("insert_into_transactions_table", @, TransactionParams(filtered_df))],
         "insert_into_customer_table")

\* variant: main() goes from the customer sink straight to commit
insert_into_customer_table_then_commit ==
    Sink("insert_into_customer_table",
         CustomerParams(filtered_df),
         [txn EXCEPT !.customer_table =
             execute_batch("insert_into_customer_table", @, CustomerParams(filtered_df))],
         "commit")

insert_into_customer_table ==
    Sink("insert_into_customer_table",
         CustomerParams(filtered_df),
         [txn EXCEPT !.customer_table =
             execute_batch("insert_into_customer_table", @, CustomerParams(filtered_df))],
         "insert_into_error_log_table")

insert_into_error_log_table ==
    Sink("insert_into_error_log_table",
         ErrorLogParams(failed_df),
         [txn EXCEPT !.error_log_table =
             execute_batch("insert_into_error_log_table", @, ErrorLogParams(failed_df))],
         "commit")

\* lines 204-206: conn.commit() makes the work of an open transaction the
\* committed store; on an aborted transaction the server answers COMMIT by
\* rolling back. Then conn.close() and the process ends.
Commit ==
    /\ pc = "commit"
    /\ db' = IF tx_status = "open" THEN txn ELSE db
    /\ loaded' = IF tx_status = "open"
                 THEN loaded \cup {<<filtered_df[i].customerId,
                                     filtered_df[i].transactionDate>> :
                                        i \in 1..Len(filtered_df)}
                 ELSE loaded
    /\ txn' = db'
    /\ tx_status' = "closed"
    /\ errors' = {}
    /\ df' = <<>>
    /\ filtered_df' = <<>>
    /\ failed_df' = <<>>
    /\ pc' = "closed"
    /\ UNCHANGED <<runs, file>>

Next ==
    \/ StartRun
    \/ create_tables
    \/ DataQualityChecks
    \/ Convert
    \/ insert_into_transactions_table
    \/ insert_into_customer_table
    \/ insert_into_error_log_table
    \/ Commit

Spec == Init /\ [][Next]_vars

(* ---- runs in which no statement fails, all reading the same file ----- *)

InitClean ==
    /\ pc = "closed"
    /\ runs = 0
    /\ df = <<>>
    /\ filtered_df = <<>>
    /\ failed_df = <<>>
    /\ db = EmptyStore
    /\ txn = EmptyStore
    /\ tx_status = "closed"
    /\ errors = {}
    /\ loaded = {}
    /\ file \in SeqsUpTo(CleanPool, MaxLoad)

\* lines 179-188, the file at FILE_PATH being what the run before read
StartRerun ==
    /\ pc = "closed"
    /\ runs < MaxRuns
    /\ df' = DataFrame(file)
    /\ runs' = runs + 1
    /\ txn' = db
    /\ tx_status' = "open"
    /\ errors' = {}
    /\ pc' = "create_tables"
    /\ UNCHANGED <<filtered_df, failed_df, db, loaded, file>>

\* the steps of main() in which nothing raises
NextClean ==
    \/ StartRerun
    \/ create_tables /\ errors' = {}
    \/ DataQualityChecks
    \/ Convert
    \/ insert_into_transactions_table /\ errors' = {}
    \/ insert_into_customer_table /\ errors' = {}
    \/ insert_into_error_log_table /\ errors' = {}
    \/ Commit

CleanSpec == InitClean /\ [][NextClean]_vars

(* ------- data_quality_checks and the conversions on their own --------- *)

InitValidator ==
    /\ pc = "data_quality_checks"
    /\ runs = 1
    /\ df \in {DataFrame(b) : b \in SeqsUpTo(Transactions, MaxBatch)}
    /\ filtered_df = <<>>
    /\ failed_df = <<>>
    /\ db = EmptyStore
    /\ txn = [EmptyStore EXCEPT !.tables = TRUE]
    /\ tx_status = "open"
    /\ errors = {}
    /\ loaded = {}
    /\ file = <<>>

NextValidator == DataQualityChecks \/ Convert

ValidatorSpec == InitValidator /\ [][NextValidator]_vars

(* ================= properties of data_quality_checks ================== *)

\* the rows of frame f that carry the index label of row i of df
Places(f, label) == {j \in 1..Len(f) : f[j].idx = label}

InFrame(f, label) == Places(f, label) # {}

\* data_quality_checks has returned and nothing has touched its results yet
Validated == pc = "convert"

\* the (transactionId, customerId) pair of row i occurs in no other row
PairOccursOnce(i) ==
    \A j \in 1..Len(df) :
        (df[j].transactionId = df[i].transactionId
            /\ df[j].customerId = df[i].customerId) => j = i

C2_DuplicatesRejected ==
    Validated =>
        \A i \in 1..Len(df) :
            ~PairOccursOnce(i) =>
                /\ InFrame(failed_df, df[i].idx)
                /\ ~InFrame(filtered_df, df[i].idx)

C9_DateRule ==
    /\ pc = "data_quality_checks" => ENABLED DataQualityChecks
    /\ Validated =>
          \A i \in 1..Len(df) :
              df[i].transactionDate \in MalformedDates =>
                  /\ InFrame(failed_df, df[i].idx)
                  /\ ~InFrame(filtered_df, df[i].idx)

\* a wrongly shaped date and an impossible day, both with a listed
\* currency, rejected in a batch that validation has finished
C9_Witness ==
    /\ Validated
    /\ \E i \in 1..Len(df) :
          /\ df[i].transactionDate = dSlashed
          /\ df[i].currency \in {"EUR", "GBP", "USD"}
          /\ InFrame(failed_df, df[i].idx)
    /\ \E i \in 1..Len(df) :
          /\ df[i].transactionDate = dFeb30
          /\ df[i].currency \in {"EUR", "GBP", "USD"}
          /\ InFrame(failed_df, df[i].idx)

\* the three rules of the claim, stated on row i of the batch
PassesAllRules(i) ==
    /\ df[i].currency \in {"EUR", "GBP", "USD"}
    /\ df[i].transactionDate \in WellFormedDates
    /\ PairOccursOnce(i)

C3_Atomicity ==
    [][(pc = "commit" /\ errors \cap Sinks # {}) => db' = db]_vars

\* C4 - fault propagation, as the claim states it: once create_tables or a
\* sink has raised, the run takes no further pipeline step; all it may do is
\* end without commit, the committed store untouched.
C4_FaultAborts ==
    [][errors # {} => (pc # "commit" /\ pc' = "closed" /\ db' = db)]_vars

\* C5 - rollup monotonicity: no step lowers the committed transactionDate
\* of a customer_table row, and no step removes the row.
C5_RollupMonotone ==
    [][\A r \in db.customer_table :
          \E r2 \in db'.customer_table :
              /\ r2.customerId = r.customerId
              /\ DateLE(r.transactionDate, r2.transactionDate)]_vars

\* scenario 4: a run about to commit has merged, for a customer already in
\* customer_table, accepted rows that are all older than the stored date,
\* and the date it will commit is the stored one
C5_Witness ==
    /\ pc = "commit"
    /\ tx_status = "open"
    /\ "insert_into_customer_table" \notin errors
    /\ \E r \in db.customer_table :
          /\ \E i \in 1..Len(filtered_df) : filtered_df[i].customerId = r.customerId
          /\ \A i \in 1..Len(filtered_df) :
                filtered_df[i].customerId = r.customerId =>
                    ~DateLE(r.transactionDate, filtered_df[i].transactionDate)
          /\ \E r2 \in txn.customer_table :
                /\ r2.customerId = r.customerId
                /\ r2.transactionDate = r.transactionDate

\* the latest of a non-empty set of dates
MaxDate(S) == CHOOSE d \in S : \A e \in S : DateLE(e, d)

\* C6 - rollup value, as the claim states it: between runs, every customer
\* with an accepted transaction in a committed load has a customer_table row
\* whose transactionDate is the latest date of those transactions.
C6_RollupIsMax ==
    pc = "closed" =>
        \A l \in loaded :
            \E r \in db.customer_table :
                /\ r.customerId = l[1]
                /\ r.transactionDate = MaxDate({m[2] : m \in {k \in loaded : k[1] = l[1]}})

\* the rows of a transactions_table with the key of v
WithKey(table, v) ==
    {r \in table : r.customerId = v.customerId /\ r.transactionId = v.transactionId}

\* the last tuple of params with the key of params[i]
LastWithKey(params, i) ==
    LET same == {j \in 1..Len(params) :
                    /\ params[j].customerId = params[i].customerId
                    /\ params[j].transactionId = params[i].transactionId}
    IN  params[CHOOSE j \in same : \A k \in same : k <= j]

\* insert_into_transactions_table has run in this run and printed success
\* inside a transaction that is still open
TransactionsWritten ==
    /\ pc \in {"insert_into_customer_table", "insert_into_error_log_table", "commit"}
    /\ tx_status = "open"
    /\ "insert_into_transactions_table" \notin errors

\* C7 - idempotent overwrite: transactions_table never holds two rows with
\* one (customerId, transactionId) key, committed or not, and once the
\* transaction sink has written the accepted rows, the one row of each of
\* their keys is, column for column, the last row submitted with that key,
\* whatever row the key had before.
C7_IdempotentOverwrite ==
    /\ \A t \in {db.transactions_table, txn.transactions_table} :
          \A r \in t : WithKey(t, r) = {r}
    /\ TransactionsWritten =>
          \A i \in 1..Len(filtered_df) :
              WithKey(txn.transactions_table, TransactionParams(filtered_df)[i])
                  = {LastWithKey(TransactionParams(filtered_df), i)}

\* a key committed by an earlier run is submitted twice in this run with
\* other values; the row about to be committed is the later submission
C7_Witness ==
    /\ TransactionsWritten
    /\ pc = "commit"
    /\ \E i, j \in 1..Len(filtered_df) :
          /\ i < j
          /\ filtered_df[i].customerId = filtered_df[j].customerId
          /\ filtered_df[i].transactionId = filtered_df[j].transactionId
          /\ filtered_df[i].amount # filtered_df[j].amount
          /\ \E r \in db.transactions_table :
                /\ r \in WithKey(db.transactions_table, TransactionParams(filtered_df)[j])
                /\ r # TransactionParams(filtered_df)[j]
          /\ TransactionParams(filtered_df)[j] \in txn.transactions_table

(* ====================== error trail, ordering ========================= *)

\* the bag of the entries of a sequence
BagOfSeq(q) ==
    [e \in {q[i] : i \in 1..Len(q)} |-> Cardinality({i \in 1..Len(q) : q[i] = e})]

\* C11 - error trail, as the claim states it: a commit that takes effect
\* leaves error_log_table as it was plus one entry (customerId,
\* transactionId, description) per row of failed_df, copies included.
C11_ErrorTrail ==
    [][(pc = "commit" /\ tx_status = "open") =>
          db'.error_log_table =
              db.error_log_table (+) BagOfSeq(ErrorLogParams(failed_df))]_vars

\* the ten fields of a row, the index label left out
RecordOf(row) ==
    Raw(row.customerId, row.customerName, row.transactionId, row.transactionDate,
        row.sourceDate, row.merchantId, row.categoryId, row.currency, row.amount,
        row.description)

\* C12 - stable partition: in filtered_df and in failed_df the index labels
\* increase, so the rows stand in the order of the batch, and each row is,
\* field for field, the row of the batch under its label; the batch itself
\* is not changed by the step.
C12_StablePartition ==
    Validated =>
        /\ \A i \in 1..Len(df) : df[i].idx = i - 1 /\ RecordOf(df[i]) \in Transactions
        /\ \A f \in {filtered_df, failed_df} :
            /\ \A j, k \in 1..Len(f) : j < k => f[j].idx < f[k].idx
            /\ \A j \in 1..Len(f) :
                  /\ f[j].idx + 1 \in 1..Len(df)
                  /\ f[j] = df[f[j].idx + 1]

\* two accepted rows with a rejected row between them in the batch
C12_Witness ==
    /\ Validated
    /\ Len(filtered_df) >= 2
    /\ \E j \in 1..Len(failed_df) :
          /\ filtered_df[1].idx < failed_df[j].idx
          /\ failed_df[j].idx < filtered_df[2].idx

(* ================== validated facts, rollup merge ===================== *)

\* the transactions_table row that main() makes of row i of the batch
FactOf(i) == TransactionParams(ConvertTypes(<<df[i]>>))[1]

\* C13 - validated facts only, as the claim states it: every
\* transactions_table row that a run has written or overwritten comes from a
\* row of its batch that has a listed currency, a well-formed date and a key
\* that occurs once in the batch.
C13_ValidatedFactsOnly ==
    pc \in {"insert_into_customer_table", "insert_into_error_log_table", "commit"} =>
        \A r \in txn.transactions_table \ db.transactions_table :
            \E i \in 1..Len(df) : PassesAllRules(i) /\ r = FactOf(i)

\* the orderings of n rows
Perms(n) == {p \in [1..n -> 1..n] : \A i, j \in 1..n : p[i] = p[j] => i = j}

Reorder(q, p) == [i \in 1..Len(q) |-> q[p[i]]]

\* customer_table after insert_into_customer_table had been handed the
\* accepted rows of this run in the ordering p
MergedInOrder(p) ==
    execute_batch("insert_into_customer_table", db.customer_table,
                  Reorder(CustomerParams(filtered_df), p))

\* insert_into_customer_table has run in this run and printed success
\* inside a transaction that is still open
CustomerWritten ==
    /\ pc \in {"insert_into_error_log_table", "commit"}
    /\ tx_status = "open"
    /\ "insert_into_customer_table" \notin errors

RollupDates(table) == {<<r.customerId, r.transactionDate>> : r \in table}

\* C14 as the claim states it: for an accepted batch of distinct keys, every
\* ordering of the rows gives the customer_table the run has written.
C14_OrderIndependentRow ==
    (CustomerWritten /\ \A i \in 1..Len(df) : PairOccursOnce(i)) =>
        \A p \in Perms(Len(filtered_df)) : MergedInOrder(p) = txn.customer_table

\* C14 - order independence of the rollup merge, amended: every ordering of
\* the accepted rows gives the same customers with the same transactionDate
\* as the run has written; the customerName written is the one of the
\* customer's last row in the batch.
C14_OrderIndependentDate ==
    CustomerWritten =>
        /\ \A p \in Perms(Len(filtered_df)) :
              RollupDates(MergedInOrder(p)) = RollupDates(txn.customer_table)
        /\ \A i \in 1..Len(filtered_df) :
              (\A j \in 1..Len(filtered_df) :
                  filtered_df[j].customerId = filtered_df[i].customerId => j <= i)
              => \E r \in txn.customer_table :
                    /\ r.customerId = filtered_df[i].customerId
                    /\ r.customerName = filtered_df[i].customerName

\* two accepted transactions of one customer, of different keys, dates and
\* names, the later date first in the batch: the row written has the later
\* date and the name of the last row
C14_Witness ==
    /\ CustomerWritten
    /\ Len(filtered_df) = 2
    /\ filtered_df[1].customerId = filtered_df[2].customerId
    /\ filtered_df[1].transactionId # filtered_df[2].transactionId
    /\ filtered_df[1].customerName # filtered_df[2].customerName
    /\ ~DateLE(filtered_df[1].transactionDate, filtered_df[2].transactionDate)
    /\ \E r \in txn.customer_table :
          /\ r.customerId = filtered_df[1].customerId
          /\ r.transactionDate = filtered_df[1].transactionDate
          /\ r.customerName = filtered_df[2].customerName

(* ================= step order, growth, schema step =================== *)

\* the order of the statements of main()
StepOrder ==
    {<<"closed", "create_tables">>,
     <<"create_tables", "data_quality_checks">>,
     <<"data_quality_checks", "convert">>,
     <<"convert", "insert_into_transactions_table">>,
     <<"insert_into_transactions_table", "insert_into_customer_table">>,
     <<"insert_into_customer_table", "insert_into_error_log_table">>,
     <<"insert_into_error_log_table", "commit">>,
     <<"commit", "closed">>}

\* C15 - step ordering: every step of a run moves to the next statement in
\* the order create_tables, data_quality_checks, conversions, transactions
\* sink, customer sink, error-log sink, commit; the relations are created
\* only by the first, the validation results set only by the second and
\* third, each table written only by its own sink, and the committed store
\* changed only by the one commit that ends the run.
C15_StepOrder ==
    [][/\ <<pc, pc'>> \in StepOrder
       /\ (tx_status' = "open" /\ txn'.tables # txn.tables) => pc = "create_tables"
       /\ (filtered_df' # filtered_df \/ failed_df' # failed_df) =>
             pc \in {"data_quality_checks", "convert", "commit"}
       /\ (tx_status' = "open" /\ txn'.transactions_table # txn.transactions_table) =>
             pc = "insert_into_transactions_table"
       /\ (tx_status' = "open" /\ txn'.customer_table # txn.customer_table) =>
             pc = "insert_into_customer_table"
       /\ (tx_status' = "open" /\ txn'.error_log_table # txn.error_log_table) =>
             pc = "insert_into_error_log_table"
       /\ db' # db => pc = "commit"]_vars

\* a run that has gone through every step and committed rows to all three
\* tables
C15_Witness ==
    /\ pc = "closed"
    /\ runs >= 1
    /\ db.tables
    /\ db.transactions_table # {}
    /\ db.customer_table # {}
    /\ db.error_log_table # EmptyBag

TransactionKeys(table) == {<<r.customerId, r.transactionId>> : r \in table}

CustomerIds(table) == {r.customerId : r \in table}

\* C16 - no deletion: no step removes a key from the committed
\* transactions_table, a customerId from the committed customer_table or a
\* copy of an entry from the committed error_log_table.
C16_NoDeletion ==
    [][/\ TransactionKeys(db.transactions_table) \subseteq TransactionKeys(db'.transactions_table)
       /\ CustomerIds(db.customer_table) \subseteq CustomerIds(db'.customer_table)
       /\ db.error_log_table \sqsubseteq db'.error_log_table]_vars

\* a run about to commit on a store that holds rows in all three tables:
\* one row overwritten in place, one more copy of a log entry
C16_Witness ==
    /\ pc = "commit"
    /\ tx_status = "open"
    /\ db.customer_table # {}
    /\ \E r \in db.transactions_table :
          /\ r \notin txn.transactions_table
          /\ <<r.customerId, r.transactionId>> \in TransactionKeys(txn.transactions_table)
    /\ \E e \in BagToSet(db.error_log_table) :
          CopiesIn(e, txn.error_log_table) > CopiesIn(e, db.error_log_table)

\* C17 - create_tables on a store whose relations exist changes no row: the
\* rows the transaction sees after it are the committed rows, and the
\* committed store is untouched.
C17_SchemaStepKeepsRows ==
    [][(pc = "create_tables" /\ db.tables) =>
          /\ txn'.transactions_table = db.transactions_table
          /\ txn'.customer_table = db.customer_table
          /\ txn'.error_log_table = db.error_log_table
          /\ db' = db]_vars

\* create_tables has succeeded on a store that already held rows in all
\* three tables, and the run sees them all
C17_Witness ==
    /\ pc = "data_quality_checks"
    /\ tx_status = "open"
    /\ db.tables
    /\ db.transactions_table # {}
    /\ db.customer_table # {}
    /\ db.error_log_table # EmptyBag
    /\ txn = db

\* C18 - in every committed store, every customerId of a transactions_table
\* row has a customer_table row, also after runs in which a sink's failure
\* was caught and the run went on.
C18_FactHasRollup ==
    pc = "closed" =>
        \A r \in db.transactions_table :
            \E c \in db.customer_table : c.customerId = r.customerId

\* C19 - in every committed store, the customer_table date of a customer is
\* no earlier than the date of any transactions_table row of that customer.
C19_RollupBoundsFacts ==
    pc = "closed" =>
        \A r \in db.transactions_table :
            \A c \in db.customer_table :
                c.customerId = r.customerId =>
                    DateLE(r.transactionDate, c.transactionDate)

====
